---- MODULE Spec2Model ----
(***************************************************************************)
(* A model of lambda_function.py: the validator validate_input, the        *)
(* iterative generator generate_fibonacci, the adapter parse_event and the *)
(* handler lambda_handler with its try/except fault boundary.              *)
(*                                                                         *)
(* Python values are tagged records, because the code branches on the      *)
(* runtime type of the input (isinstance) before it looks at its value.    *)
(* A JSON text is a sequence of tokens, because json.dumps writes a bool   *)
(* as the literal true/false and an int as a number.                       *)
(***************************************************************************)
EXTENDS Integers, Sequences, FiniteSets, TLC

VARIABLES event, context, pc, n, is_valid, error_message, sequence,
          raised, response, g_n, g_sequence, g_i, g_ret, prev

vars == <<event, context, pc, n, is_valid, error_message, sequence,
          raised, response, g_n, g_sequence, g_i, g_ret, prev>>

(***************************************************************************)
(* Bounds of the model and constants of the program.                       *)
(***************************************************************************)
\* largest index the generator is run for (TLC integers are 32 bits wide,
\* Python's are unbounded, so the bound keeps every element exact)
MaxN == 14
\* how far below 0 and above the limit the integer inputs go
MaxOut == 2
\* number of distinct runtime contexts an invocation may be given
NumContexts == 2
\* the upper limit of validate_input (line 36)
Limit == 1000

(***************************************************************************)
(* Python values.                                                          *)
(***************************************************************************)
Unbound == [type |-> "unbound"]
None == [type |-> "NoneType"]
PyInt(k) == [type |-> "int", ival |-> k]
\* bool is a subclass of int whose two values are the integers 0 and 1
PyBool(b) == [type |-> "bool", ival |-> IF b THEN 1 ELSE 0]
\* a float, kept exactly as a number of tenths (5.0 is 50, -0.5 is -5)
PyFloat(t) == [type |-> "float", tenths |-> t]
PyStr(s) == [type |-> "str", sval |-> s]
\* a list of integers
PyList(s) == [type |-> "list", items |-> s]
\* a dict, as its key/value pairs in insertion order
PyDict(kv) == [type |-> "dict", pairs |-> kv]

Ret(v) == [exc |-> "none", value |-> v]
Raise(e) == [exc |-> e]

\* isinstance(v, cls): true of the class itself and of its subclasses
isinstance(v, cls) ==
    \/ v.type = cls
    \/ cls = "int" /\ v.type = "bool"

\* v < k for an integer literal k; ordering a non-number raises TypeError
PyLt(v, k) ==
    IF v.type \in {"int", "bool"} THEN Ret(v.ival < k)
    ELSE IF v.type = "float" THEN Ret(v.tenths < 10 * k)
    ELSE Raise("TypeError")

\* v > k for an integer literal k
PyGt(v, k) ==
    IF v.type \in {"int", "bool"} THEN Ret(v.ival > k)
    ELSE IF v.type = "float" THEN Ret(v.tenths > 10 * k)
    ELSE Raise("TypeError")

\* v == k for an integer literal k; never raises
PyEq(v, k) ==
    IF v.type \in {"int", "bool"} THEN v.ival = k
    ELSE IF v.type = "float" THEN v.tenths = 10 * k
    ELSE FALSE

\* bool(v) of a bool
Truthy(v) == v.type = "bool" /\ v.ival = 1

RECURSIVE dict_get(_, _)
\* d.get(key) on the pairs of a dict: the value, or None when key is absent
dict_get(kv, key) ==
    IF kv = <<>> THEN None
    ELSE IF Head(kv)[1] = key THEN Head(kv)[2]
    ELSE dict_get(Tail(kv), key)

(***************************************************************************)
(* JSON texts, as json.dumps writes them with its default separators.      *)
(***************************************************************************)
Punct(s) == [t |-> "punct", s |-> s]
JStr(s) == [t |-> "string", s |-> s]
JNum(k) == [t |-> "number", v |-> k]
JFloat(t) == [t |-> "float", tenths |-> t]
JLit(s) == [t |-> "literal", s |-> s]

RECURSIVE JoinInts(_)
\* the elements of a list of integers, separated by ", "
JoinInts(s) ==
    IF s = <<>> THEN <<>>
    ELSE IF Len(s) = 1 THEN <<JNum(s[1])>>
    ELSE <<JNum(s[1]), Punct(", ")>> \o JoinInts(Tail(s))

RECURSIVE json_dumps(_)
RECURSIVE JoinPairs(_)
\* the members of a dict, "key": value, separated by ", "
JoinPairs(kv) ==
    IF kv = <<>> THEN <<>>
    ELSE LET member == <<JStr(kv[1][1]), Punct(": ")>> \o json_dumps(kv[1][2])
         IN IF Len(kv) = 1 THEN member
            ELSE member \o <<Punct(", ")>> \o JoinPairs(Tail(kv))

\* json.dumps(v): None is null, a bool is true/false (checked before int),
\* an int is a number, a str is a string, a list an array, a dict an object
json_dumps(v) ==
    CASE v.type = "NoneType" -> <<JLit("null")>>
      [] v.type = "bool" -> <<JLit(IF v.ival = 1 THEN "true" ELSE "false")>>
      [] v.type = "int" -> <<JNum(v.ival)>>
      [] v.type = "float" -> <<JFloat(v.tenths)>>
      [] v.type = "str" -> <<JStr(v.sval)>>
      [] v.type = "list" -> <<Punct("[")>> \o JoinInts(v.items) \o <<Punct("]")>>
      [] v.type = "dict" -> <<Punct("{")>> \o JoinPairs(v.pairs) \o <<Punct("}")>>

(***************************************************************************)
(* validate_input (lines 1-40).                                            *)
(***************************************************************************)
MsgRequired == "Input parameter 'n' is required"
MsgInteger == "Input must be an integer"
MsgNegative == "Input must be a non-negative integer"
MsgExceeds == "Input must not exceed 1000"
MsgInternal == "Internal server error"

\* the tuple (False, message)
Invalid(m) == Ret(<<PyBool(FALSE), PyStr(m)>>)

\* a variant of validate_input: the type check of lines 23-29 is left out
validate_input_untyped(v) ==
    IF v.type = "NoneType" THEN Invalid(MsgRequired)
    ELSE LET neg == PyLt(v, 0) IN
        IF neg.exc # "none" THEN neg
        ELSE IF neg.value THEN Invalid(MsgNegative)
        ELSE LET big == PyGt(v, Limit) IN
            IF big.exc # "none" THEN big
            ELSE IF big.value THEN Invalid(MsgExceeds)
            ELSE Ret(<<PyBool(TRUE), PyStr("")>>)

validate_input(v) ==
    IF v.type = "NoneType" THEN Invalid(MsgRequired)
    ELSE IF ~isinstance(v, "int") THEN
        IF isinstance(v, "float") THEN Invalid(MsgInteger)
        ELSE IF isinstance(v, "str") THEN Invalid(MsgInteger)
        ELSE Invalid(MsgInteger)
    ELSE LET neg == PyLt(v, 0) IN
        IF neg.exc # "none" THEN neg
        ELSE IF neg.value THEN Invalid(MsgNegative)
        ELSE LET big == PyGt(v, Limit) IN
            IF big.exc # "none" THEN big
            ELSE IF big.value THEN Invalid(MsgExceeds)
            ELSE Ret(<<PyBool(TRUE), PyStr("")>>)

(***************************************************************************)
(* parse_event (lines 75-85): event.get('n'). Only a dict has get; on any  *)
(* other event the attribute lookup raises AttributeError.                 *)
(***************************************************************************)
parse_event(ev) ==
    IF ev.type = "dict" THEN Ret(dict_get(ev.pairs, "n"))
    ELSE Raise("AttributeError")

(***************************************************************************)
(* The three responses of lambda_handler.                                  *)
(***************************************************************************)
JsonHeaders == [k \in {"Content-Type"} |-> "application/json"]

\* a variant of ClientErrorResponse: one fixed message for every failure
ClientErrorResponseFixed(message) ==
    [statusCode |-> 400, headers |-> JsonHeaders,
     body |-> json_dumps(PyDict(<< <<"error", PyStr(MsgInteger)>> >>))]

\* lines 110-116
ClientErrorResponse(message) ==
    [statusCode |-> 400, headers |-> JsonHeaders,
     body |-> json_dumps(PyDict(<< <<"error", message>> >>))]

\* a variant of SuccessResponse: the request id of the context is added
SuccessResponseStamped(num, seq) ==
    [statusCode |-> 200, headers |-> JsonHeaders,
     body |-> json_dumps(PyDict(<< <<"n", num>>, <<"sequence", seq>>,
                  <<"requestId", PyInt(context.aws_request_id)>> >>))]

\* lines 122-131
SuccessResponse(num, seq) ==
    [statusCode |-> 200, headers |-> JsonHeaders,
     body |-> json_dumps(PyDict(<< <<"n", num>>, <<"sequence", seq>> >>))]

\* a variant of ServerErrorResponse: the body names the exception
ServerErrorResponseDetail ==
    [statusCode |-> 500, headers |-> JsonHeaders,
     body |-> json_dumps(PyDict(<< <<"error", PyStr(raised)>> >>))]

\* lines 135-141
ServerErrorResponse ==
    [statusCode |-> 500, headers |-> JsonHeaders,
     body |-> json_dumps(PyDict(<< <<"error", PyStr(MsgInternal)>> >>))]

(***************************************************************************)
(* generate_fibonacci (lines 43-72), one action per step of its loop.      *)
(***************************************************************************)
\* sequence[j], with Python's 0-based index
PyIndex(items, j) == items[j + 1]

\* line 60 and line 64: the two edge-case results
SeedZero == <<0>>
SeedOne == <<0, 1>>
\* line 67
SeedLoop == <<0, 1>>

\* a variant of RangeStop: range(2, n), which stops one index early
RangeStopShort(num) == num.ival

\* line 68: the exclusive end of range(2, n + 1)
RangeStop(num) == num.ival + 1

\* a variant of NextValue: the element before is added to itself
NextValueSameIndex(items, i) == PyIndex(items, i - 1) + PyIndex(items, i - 1)

\* line 69
NextValue(items, i) == PyIndex(items, i - 1) + PyIndex(items, i - 2)

\* lines 59-68: the edge cases, or the seed and the start of the range
GenEnter ==
    /\ pc = "gen_enter"
    /\ IF PyEq(g_n, 0) THEN
            /\ g_ret' = PyList(SeedZero)
            /\ pc' = "gen_returned"
            /\ UNCHANGED <<g_sequence, g_i, raised>>
       ELSE IF PyEq(g_n, 1) THEN
            /\ g_ret' = PyList(SeedOne)
            /\ pc' = "gen_returned"
            /\ UNCHANGED <<g_sequence, g_i, raised>>
       ELSE IF isinstance(g_n, "int") THEN
            /\ g_sequence' = PyList(SeedLoop)
            /\ g_i' = PyInt(2)
            /\ pc' = "gen_loop"
            /\ UNCHANGED <<g_ret, raised>>
       ELSE \* n + 1, or range() of it, raises TypeError
            /\ g_sequence' = PyList(SeedLoop)
            /\ raised' = "TypeError"
            /\ pc' = "except"
            /\ UNCHANGED <<g_ret, g_i>>
    /\ UNCHANGED <<event, context, n, is_valid, error_message, sequence,
                   response, g_n, prev>>

\* lines 68-70: one iteration of the loop
GenLoop ==
    /\ pc = "gen_loop"
    /\ g_i.ival < RangeStop(g_n)
    /\ g_sequence' = PyList(Append(g_sequence.items,
                                   NextValue(g_sequence.items, g_i.ival)))
    /\ g_i' = PyInt(g_i.ival + 1)
    /\ UNCHANGED <<event, context, pc, n, is_valid, error_message, sequence,
                   raised, response, g_n, g_ret, prev>>

\* lines 68 and 72: the range is exhausted and the list is returned
GenReturn ==
    /\ pc = "gen_loop"
    /\ ~(g_i.ival < RangeStop(g_n))
    /\ g_ret' = g_sequence
    /\ pc' = "gen_returned"
    /\ UNCHANGED <<event, context, n, is_valid, error_message, sequence,
                   raised, response, g_n, g_sequence, g_i, prev>>

(***************************************************************************)
(* lambda_handler (lines 88-141).                                          *)
(***************************************************************************)
\* the context object of the runtime; the handler never reads it
Context(k) == [aws_request_id |-> k]

\* what is remembered of a finished invocation: its inputs and its response
Finished == [event |-> event, context |-> context, response |-> response]

\* line 88: the runtime calls the handler; its locals are not bound yet.
\* Of the invocations that finished, one is remembered from then on.
Invoke(ev, ctx) ==
    /\ pc \in {"idle", "done"}
    /\ event' = ev
    /\ context' = ctx
    /\ pc' = "extract"
    /\ n' = Unbound
    /\ is_valid' = Unbound
    /\ error_message' = Unbound
    /\ sequence' = Unbound
    /\ raised' = "none"
    /\ response' = Unbound
    /\ g_n' = Unbound
    /\ g_sequence' = Unbound
    /\ g_i' = Unbound
    /\ g_ret' = Unbound
    /\ IF pc = "done" /\ prev = Unbound
       THEN prev' \in {Unbound, Finished}
       ELSE prev' = prev

\* line 103
Extract ==
    /\ pc = "extract"
    /\ LET r == parse_event(event) IN
       IF r.exc = "none"
       THEN /\ n' = r.value
            /\ pc' = "validate"
            /\ UNCHANGED raised
       ELSE /\ raised' = r.exc
            /\ pc' = "except"
            /\ UNCHANGED n
    /\ UNCHANGED <<event, context, is_valid, error_message, sequence,
                   response, g_n, g_sequence, g_i, g_ret, prev>>

\* line 106
Validate ==
    /\ pc = "validate"
    /\ LET r == validate_input(n) IN
       IF r.exc = "none"
       THEN /\ is_valid' = r.value[1]
            /\ error_message' = r.value[2]
            /\ pc' = "branch"
            /\ UNCHANGED raised
       ELSE /\ raised' = r.exc
            /\ pc' = "except"
            /\ UNCHANGED <<is_valid, error_message>>
    /\ UNCHANGED <<event, context, n, sequence, response,
                   g_n, g_sequence, g_i, g_ret, prev>>

\* lines 108-116
Reject ==
    /\ pc = "branch"
    /\ ~Truthy(is_valid)
    /\ response' = ClientErrorResponse(error_message)
    /\ pc' = "done"
    /\ UNCHANGED <<event, context, n, is_valid, error_message, sequence,
                   raised, g_n, g_sequence, g_i, g_ret, prev>>

\* lines 108 and 119: the call of generate_fibonacci(n)
CallGenerate ==
    /\ pc = "branch"
    /\ Truthy(is_valid)
    /\ g_n' = n
    /\ pc' = "gen_enter"
    /\ UNCHANGED <<event, context, n, is_valid, error_message, sequence,
                   raised, response, g_sequence, g_i, g_ret, prev>>

\* lines 119-131
Respond ==
    /\ pc = "gen_returned"
    /\ sequence' = g_ret
    /\ response' = SuccessResponse(n, g_ret)
    /\ pc' = "done"
    /\ UNCHANGED <<event, context, n, is_valid, error_message, raised,
                   g_n, g_sequence, g_i, g_ret, prev>>

\* line 133: the classes `except Exception` catches. AttributeError and
\* TypeError derive from Exception; KeyboardInterrupt and SystemExit do not.
CaughtByExcept(e) == e \in {"AttributeError", "TypeError", "Exception"}

\* lines 133-141: the handler of the try block; an exception the clause does
\* not catch leaves lambda_handler and reaches the runtime
Except ==
    /\ pc = "except"
    /\ IF CaughtByExcept(raised)
       THEN response' = ServerErrorResponse /\ pc' = "done"
       ELSE response' = response /\ pc' = "escaped"
    /\ UNCHANGED <<event, context, n, is_valid, error_message, sequence,
                   raised, g_n, g_sequence, g_i, g_ret, prev>>

(***************************************************************************)
(* The inputs.                                                             *)
(***************************************************************************)
\* the integers given as "n": around 0, up to MaxN, and just above the limit
SmallInts == (0 - MaxOut)..MaxN
OverInts == (Limit + 1)..(Limit + MaxOut)
\* every integer from below 0 to above the limit
WideInts == (0 - MaxOut)..(Limit + MaxOut)

NonInts ==
    {None, PyBool(TRUE), PyBool(FALSE), PyFloat(50), PyFloat(25),
     PyFloat(-10), PyFloat(10 * Limit + 10), PyStr("5"), PyStr(""),
     PyList(<<>>), PyList(<<5>>), PyDict(<<>>)}

Values == NonInts \cup {PyInt(k) : k \in SmallInts \cup OverInts}
WideValues == NonInts \cup {PyInt(k) : k \in WideInts}

EventWith(v) == PyDict(<< <<"n", v>> >>)
\* events that are no mapping, the empty event, an event with another key
OddEvents ==
    {None, PyList(<<>>), PyStr("n"), PyInt(5),
     PyDict(<<>>), PyDict(<< <<"m", PyInt(5)>> >>),
     PyDict(<< <<"m", PyInt(1)>>, <<"n", PyInt(3)>> >>)}

Events == OddEvents \cup {EventWith(v) : v \in Values}
WideEvents == OddEvents \cup {EventWith(v) : v \in WideValues}
Contexts == {Context(k) : k \in 1..NumContexts}

(***************************************************************************)
(* The specifications.                                                     *)
(***************************************************************************)
Blank ==
    /\ event = Unbound
    /\ context = Unbound
    /\ n = Unbound
    /\ is_valid = Unbound
    /\ error_message = Unbound
    /\ sequence = Unbound
    /\ raised = "none"
    /\ response = Unbound
    /\ g_sequence = Unbound
    /\ g_i = Unbound
    /\ g_ret = Unbound
    /\ prev = Unbound

\* the handler, invoked again and again by the runtime
Init == Blank /\ pc = "idle" /\ g_n = Unbound

Next ==
    \/ \E ev \in Events, ctx \in Contexts : Invoke(ev, ctx)
    \/ Extract
    \/ Validate
    \/ Reject
    \/ CallGenerate
    \/ GenEnter
    \/ GenLoop
    \/ GenReturn
    \/ Respond
    \/ Except

Spec == Init /\ [][Next]_vars

\* generate_fibonacci called on its own with an integer of its precondition
InitGen == Blank /\ pc = "gen_enter" /\ g_n \in {PyInt(k) : k \in 0..MaxN}

NextGen == GenEnter \/ GenLoop \/ GenReturn

\* the call runs on one thread and is never suspended: it keeps stepping
SpecGen == InitGen /\ [][NextGen]_vars /\ WF_vars(NextGen)

\* parse_event and validate_input on every integer up to the limit and beyond
InitValidate ==
    /\ pc = "idle"
    /\ Blank
    /\ g_n = Unbound

NextValidate ==
    \/ \E ev \in WideEvents, ctx \in Contexts : pc = "idle" /\ Invoke(ev, ctx)
    \/ Extract
    \/ Validate

SpecValidate == InitValidate /\ [][NextValidate]_vars

(***************************************************************************)
(* Reading a response body back: the two shapes a body may have.           *)
(***************************************************************************)
\* the text {"error": "<m>"}
ErrorBody(m) ==
    <<Punct("{"), JStr("error"), Punct(": "), JStr(m), Punct("}")>>

IsErrorBody(b) ==
    /\ Len(b) = 5
    /\ b[4].t = "string"
    /\ b = ErrorBody(b[4].s)

\* the number of elements of the array of a body {"n": x, "sequence": [...]}
BodyCount(b) == (Len(b) - 9) \div 2
\* the token written for "n"
BodyN(b) == b[4]
\* the elements of the array, in order
BodySequence(b) == [j \in 1..BodyCount(b) |-> b[7 + 2 * j].v]

\* the text {"n": <x>, "sequence": [<int>, ...]} with at least one element,
\* whatever token x is
IsSequenceBody(b) ==
    /\ Len(b) >= 11
    /\ Len(b) % 2 = 1
    /\ SubSeq(b, 1, 3) = <<Punct("{"), JStr("n"), Punct(": ")>>
    /\ SubSeq(b, 5, 8) =
         <<Punct(", "), JStr("sequence"), Punct(": "), Punct("[")>>
    /\ \A j \in 1..BodyCount(b) : b[7 + 2 * j].t = "number"
    /\ \A j \in 1..(BodyCount(b) - 1) : b[8 + 2 * j] = Punct(", ")
    /\ b[Len(b) - 1] = Punct("]")
    /\ b[Len(b)] = Punct("}")

\* the shape {"n": integer, "sequence": [integer...]}
IsSuccessBody(b) == IsSequenceBody(b) /\ BodyN(b).t = "number"

RECURSIVE FibPair(_)
\* <<F(k), F(k+1)>> of the Fibonacci numbers F(0) = 0, F(1) = 1
FibPair(k) ==
    IF k = 0 THEN <<0, 1>>
    ELSE LET p == FibPair(k - 1) IN <<p[2], p[1] + p[2]>>

Fib(k) == FibPair(k)[1]

ValidatorMessages == {MsgRequired, MsgInteger, MsgNegative, MsgExceeds}

Done == pc = "done"

(***************************************************************************)
(* The claims.                                                             *)
(***************************************************************************)

\* what the rules of C1 give for a value: the first failing rule decides
RuleResult(v) ==
    IF v.type = "NoneType" THEN <<FALSE, MsgRequired>>
    ELSE IF v.type # "int" THEN <<FALSE, MsgInteger>>
    ELSE IF v.ival < 0 THEN <<FALSE, MsgNegative>>
    ELSE IF v.ival > 1000 THEN <<FALSE, MsgExceeds>>
    ELSE <<TRUE, "">>

\* C1: once validate_input has returned, its result is the one the ordered
\* rules give: None is "required"; any value whose runtime type is not the
\* integer type is "must be an integer"; a negative integer, then an integer
\* above 1000, have their own message; every integer of 0..1000 is (true, "").
C1_ValidateRules ==
    pc = "branch" =>
        <<Truthy(is_valid), error_message.sval>> = RuleResult(n)

\* C2: generate_fibonacci(n), for an integer n of its precondition, returns
\* a list of n+1 elements that starts 0, 1 and in which every later element
\* is the sum of the two before it; and every call does return.
C2_Post ==
    LET s == g_ret.items
        k == g_n.ival
    IN /\ Len(s) = k + 1
       /\ s[1] = 0
       /\ (k >= 1 => s[2] = 1)
       /\ \A i \in 2..k : s[i + 1] = s[i] + s[i - 1]

C2_GenerateFibonacci ==
    /\ [](pc = "gen_returned" => C2_Post)
    /\ <>(pc = "gen_returned")

\* C2 witness: a call with n >= 5 went round the loop and returned
C2_Witness ==
    /\ pc = "gen_returned"
    /\ g_n.ival >= 5
    /\ g_i = PyInt(g_n.ival + 1)
    /\ SubSeq(g_ret.items, 1, 6) = <<0, 1, 1, 2, 3, 5>>

C4_ClientError ==
    Done =>
        /\ (is_valid # Unbound /\ ~Truthy(is_valid))
               <=> response.statusCode = 400
        /\ response.statusCode = 400 =>
               /\ response.body = ErrorBody(error_message.sval)
               /\ error_message.sval = RuleResult(n)[2]
               /\ error_message.sval \in ValidatorMessages
               /\ sequence = Unbound
               /\ g_n = Unbound /\ g_sequence = Unbound /\ g_ret = Unbound

\* C4 witness: n = 1001 was refused with status 400
C4_Witness ==
    /\ Done
    /\ event = EventWith(PyInt(1001))
    /\ response.statusCode = 400
    /\ response.body = ErrorBody(MsgExceeds)

\* the token the input value of the event reads as in a JSON text
InputToken(v) ==
    IF v.type = "bool" THEN JLit(IF v.ival = 1 THEN "true" ELSE "false")
    ELSE JNum(v.ival)

\* C5: an invocation whose extracted value passed validation ends with
\* status 200 and the body {"n": n, "sequence": s}: n is the input value as
\* it came, s is the Fibonacci sequence F(0)..F(n) of n+1 elements; n = 5
\* gives [0,1,1,2,3,5] and n = 0 gives [0].
C5_Success ==
    Done /\ is_valid # Unbound /\ Truthy(is_valid) =>
        LET b == response.body
            v == dict_get(event.pairs, "n")
        IN /\ response.statusCode = 200
           /\ IsSequenceBody(b)
           /\ BodyN(b) = InputToken(v)
           /\ BodySequence(b) = [j \in 1..(v.ival + 1) |-> Fib(j - 1)]
           /\ sequence = PyList(BodySequence(b))
           /\ (v = PyInt(5) => BodySequence(b) = <<0, 1, 1, 2, 3, 5>>)
           /\ (v = PyInt(0) => BodySequence(b) = <<0>>)

\* C5 witness: the event {"n": 5} was answered with status 200
C5_Witness ==
    /\ Done
    /\ event = EventWith(PyInt(5))
    /\ response.statusCode = 200
    /\ BodySequence(response.body) = <<0, 1, 1, 2, 3, 5>>

\* C6: no exception leaves lambda_handler; an invocation in which one was
\* raised ends with status 500 and the body {"error": "Internal server
\* error"}, which does not name the exception; and only a raised exception
\* gives status 500.
C6_ServerError ==
    /\ pc # "escaped"
    /\ (raised # "none" => pc \in {"except", "done"})
    /\ Done =>
        /\ raised # "none" <=> response.statusCode = 500
        /\ response.statusCode = 500 =>
               /\ response.body = ErrorBody(MsgInternal)
               /\ \A j \in 1..Len(response.body) :
                      response.body[j] # JStr(raised)

\* C6 witness: an event that is no mapping was answered with status 500
C6_Witness ==
    /\ Done
    /\ event = PyList(<<>>)
    /\ raised = "AttributeError"
    /\ response.statusCode = 500

\* C7: every response has status 200, 400 or 500, the JSON content-type
\* header, and a body of exactly one shape: {"error": string} exactly when
\* the status is 400 or 500, {"n": integer, "sequence": [integer...]}
\* exactly when it is 200.
C7_ResponseShape ==
    Done =>
        /\ response.statusCode \in {200, 400, 500}
        /\ response.headers = [k \in {"Content-Type"} |-> "application/json"]
        /\ IsErrorBody(response.body) <=> response.statusCode \in {400, 500}
        /\ IsSuccessBody(response.body) <=> response.statusCode = 200
        /\ IsErrorBody(response.body) # IsSuccessBody(response.body)

\* C8: validate_input returns for every value (it never raises), and the
\* pair it returns has an empty message exactly when it is valid.
C8_ValidationResult ==
    /\ (pc = "except" => n = Unbound)
    /\ pc = "branch" =>
        /\ is_valid.type = "bool"
        /\ error_message.type = "str"
        /\ error_message.sval = "" <=> Truthy(is_valid)

\* C8 witness: validate_input returned (true, "") for the integer 1000
C8_Witness ==
    /\ pc = "branch"
    /\ n = PyInt(1000)
    /\ Truthy(is_valid)
    /\ error_message.sval = ""

\* C9: an invocation whose event equals that of a remembered earlier
\* invocation, whatever ran in between and whatever context either was
\* given, returns the same status and the same body.
C9_Deterministic ==
    Done /\ prev # Unbound /\ prev.event = event =>
        /\ prev.response.statusCode = response.statusCode
        /\ prev.response.body = response.body
        /\ prev.response = response

\* C9 witness: the same event was answered a second time, under another
\* context, with a sequence
C9_Witness ==
    /\ Done
    /\ prev # Unbound
    /\ prev.event = event
    /\ prev.context # context
    /\ response.statusCode = 200

\* C10: while generate_fibonacci runs for the handler, the value was
\* extracted and validated first, and the argument is a non-negative
\* integer that does not exceed 1000.
C10_GeneratePrecondition ==
    pc \in {"gen_enter", "gen_loop", "gen_returned"} =>
        /\ n = dict_get(event.pairs, "n")
        /\ Truthy(is_valid)
        /\ g_n = n
        /\ g_n.type = "int"
        /\ g_n.ival >= 0
        /\ g_n.ival <= 1000

====
